---- MODULE Spec2Model ----
(***************************************************************************)
(* A model of the DCEL builder (geom/dcel.go), of the interaction-point    *)
(* finder (geom/dcel_interaction_points.go) and of the convex hull of      *)
(* simplefeatures.                                                         *)
(*                                                                         *)
(* An XY is a pair <<x, y>> of integers.  A coordinate sequence is a TLA+  *)
(* sequence of XYs; the Go code indexes it from 0, the model from 1, and   *)
(* GetXY / Slice below take the Go (0-based) indices.  A pointer to a      *)
(* vertex record is the XY key of the record in the vertices map (records  *)
(* are never replaced once stored) and a pointer to a half-edge record is  *)
(* its 1-based position in halfEdges.  A nil vertex pointer is never       *)
(* stored: the code dereferences it (and panics) before the edge that      *)
(* would hold it is appended.                                              *)
(***************************************************************************)
EXTENDS Integers, Sequences, FiniteSets, TLC

VARIABLES
    gs,            \* the calls of the run: <<[g |-> geometry, op |-> operand], ...>>
    ghosts,        \* the ghost MultiLineString handed to addGhosts
    done,          \* how many elements of gs have been processed
    interactions,  \* the interaction set (map[XY]struct{})
    adjacents,     \* findInteractionPoints' adjacents map
    vertices,      \* doublyConnectedEdgeList.vertices
    halfEdges,     \* doublyConnectedEdgeList.halfEdges
    hullPts,       \* convexHull's pts slice
    hull,          \* convexHull's hull slice
    result,        \* the geometry convexHull returns (NoResult before it returns)
    pc             \* "finding" | "found" | "building" | "built" | "panicked" | "diverged"
                   \* | "hull" | "collected" | "chained" | "returned"

vars == <<gs, ghosts, done, interactions, adjacents, vertices, halfEdges,
          hullPts, hull, result, pc>>

Operands == {0, 1}

----------------------------------------------------------------------------
(* Bounds of the model.                                                    *)

\* longest line string enumerated for the interaction finder
MaxLineLen == 3
\* most calls of addGeometry in one run of the builder
MaxCalls == 2
\* most line strings in a MultiLineString enumerated for the mod-2 rule
MaxLines == 3

----------------------------------------------------------------------------
(* Sequences and geometries.                                               *)

GetXY(seq, i) == seq[i + 1]

Slice(seq, i, j) == SubSeq(seq, i + 1, j)

reverseSequence(seq) == [i \in 1..Len(seq) |-> seq[Len(seq) + 1 - i]]

Less(p, q) == p[1] < q[1] \/ (p[1] = q[1] /\ p[2] < q[2])

\* Every geometry is a record of the same shape; a field a variant does not
\* use is the empty sequence.
\*   pts   : the points of a Point (none when empty) or MultiPoint
\*   lines : the line strings of a LineString or MultiLineString
\*   polys : the polygons of a Polygon or MultiPolygon, each <<exterior, hole, ...>>
\*   geoms : the children of a GeometryCollection
Geom(t, p, l, y, c) == [type |-> t, pts |-> p, lines |-> l, polys |-> y, geoms |-> c]

Point(xy) == Geom("Point", <<xy>>, <<>>, <<>>, <<>>)

EmptyPoint == Geom("Point", <<>>, <<>>, <<>>, <<>>)

MultiPoint(pts) == Geom("MultiPoint", pts, <<>>, <<>>, <<>>)

LineString(seq) == Geom("LineString", <<>>, <<seq>>, <<>>, <<>>)

MultiLineString(lines) == Geom("MultiLineString", <<>>, lines, <<>>, <<>>)

Polygon(rings) == Geom("Polygon", <<>>, <<>>, <<rings>>, <<>>)

MultiPolygon(polys) == Geom("MultiPolygon", <<>>, <<>>, polys, <<>>)

GeometryCollection(children) == Geom("GeometryCollection", <<>>, <<>>, <<>>, children)

\* convexHull has not returned.
NoResult == Geom("none", <<>>, <<>>, <<>>, <<>>)

IsClosed(seq) == Len(seq) > 0 /\ seq[1] = seq[Len(seq)]

\* Polygon.Boundary / MultiPolygon.Boundary: every ring as a line string.
RECURSIVE Boundary(_)
Boundary(polys) ==
    IF polys = <<>> THEN <<>> ELSE Head(polys) \o Boundary(Tail(polys))

----------------------------------------------------------------------------
(* The interaction-point finder.  Its state is the pair of maps it fills:  *)
(* [adj |-> adjacents, ints |-> interactions].                             *)

\* Mutant of xyPair: the pair is not canonicalised.
xyPairDirected(prev, next) == <<prev, next>>

xyPair(prev, next) == IF Less(next, prev) THEN <<next, prev>> ELSE <<prev, next>>

\* Mutant of LineStringStep: the test prev == next is missing, so a reversal
\* point is treated like any other interior vertex.
LineStringStepNoReversal(seq, i, st) ==
    LET prev == GetXY(seq, i - 1)
        curr == GetXY(seq, i)
        next == GetXY(seq, i + 1)
        adj  == IF Less(next, prev) THEN <<next, prev>> ELSE <<prev, next>>
        ok   == curr \in DOMAIN st.adj
    IN  [adj  |-> IF ~ok THEN (curr :> adj) @@ st.adj ELSE st.adj,
         ints |-> IF ok /\ st.adj[curr] # adj
                  THEN st.ints \cup {curr} ELSE st.ints]

\* One iteration (0-based index i) of the loop over the interior vertices.
LineStringStep(seq, i, st) ==
    LET prev == GetXY(seq, i - 1)
        curr == GetXY(seq, i)
        next == GetXY(seq, i + 1)
        adj  == xyPair(prev, next)
        ok   == curr \in DOMAIN st.adj
    IN  IF prev = next
        THEN [st EXCEPT !.ints = @ \cup {curr}]
        ELSE [adj  |-> IF ~ok THEN (curr :> adj) @@ st.adj ELSE st.adj,
              ints |-> IF ok /\ st.adj[curr] # adj
                       THEN st.ints \cup {curr} ELSE st.ints]

RECURSIVE LineStringLoop(_, _, _)
LineStringLoop(seq, i, st) ==
    IF i + 1 < Len(seq)
    THEN LineStringLoop(seq, i + 1, LineStringStep(seq, i, st))
    ELSE st

\* Mutant of addLineStringInteractions: the end point is not added.
addLineStringInteractionsNoEnd(seq, st) ==
    LET n    == Len(seq)
        ends == IF n > 0 THEN {GetXY(seq, 0)} ELSE {}
    IN  LineStringLoop(seq, 1, [st EXCEPT !.ints = @ \cup ends])

addLineStringInteractions(seq, st) ==
    LET n    == Len(seq)
        ends == IF n > 0 THEN {GetXY(seq, 0), GetXY(seq, n - 1)} ELSE {}
    IN  LineStringLoop(seq, 1, [st EXCEPT !.ints = @ \cup ends])

RECURSIVE addMultiLineStringInteractions(_, _)
addMultiLineStringInteractions(lines, st) ==
    IF lines = <<>> THEN st
    ELSE addMultiLineStringInteractions(
             Tail(lines), addLineStringInteractions(Head(lines), st))

\* addPointInteractions and addMultiPointInteractions: every non-empty point.
addMultiPointInteractions(pts, st) ==
    [st EXCEPT !.ints = @ \cup {pts[i] : i \in 1..Len(pts)}]

\* A GeometryCollection makes the finder panic: the result carries no maps.
addGeometryInteractions(g, st) ==
    CASE g.type \in {"Point", "MultiPoint"} -> addMultiPointInteractions(g.pts, st)
      [] g.type \in {"LineString", "MultiLineString"} ->
             addMultiLineStringInteractions(g.lines, st)
      [] g.type \in {"Polygon", "MultiPolygon"} ->
             addMultiLineStringInteractions(Boundary(g.polys), st)
      [] OTHER -> st

RECURSIVE FindLoop(_, _)
FindLoop(geoms, st) ==
    IF geoms = <<>> THEN st
    ELSE FindLoop(Tail(geoms), addGeometryInteractions(Head(geoms), st))

EmptyMap == [x \in {} |-> {}]

findInteractionPoints(geoms) ==
    FindLoop(geoms, [adj |-> EmptyMap, ints |-> {}]).ints

----------------------------------------------------------------------------
(* The DCEL builder.  Every operation takes and returns a record           *)
(*   [vertices, halfEdges, st]                                             *)
(* where st is "ok" while the Go code is still running normally, "panic"   *)
(* once it has panicked and "diverge" once it is in a loop it never        *)
(* leaves.  An operation applied to a record whose st is not "ok" is       *)
(* never executed by the Go code and returns the record as it is.          *)

NoFlags == [k \in Operands |-> FALSE]

NoLocations == [k \in Operands |-> [boundary |-> FALSE, interior |-> FALSE]]

newLocationsOnBoundary(operand) == [NoLocations EXCEPT ![operand].boundary = TRUE]

vertexRecord(xy, src, locs) ==
    [coords |-> xy, incidents |-> <<>>, src |-> src, locations |-> locs]

halfEdgeRecord(origin, twin, next, prev, seq, srcEdge, srcFace) ==
    [origin |-> origin, twin |-> twin, next |-> next, prev |-> prev,
     seq |-> seq, srcEdge |-> srcEdge, srcFace |-> srcFace]

Flag(operand) == [NoFlags EXCEPT ![operand] = TRUE]

Min(S) == CHOOSE x \in S : \A y \in S : x <= y

\* Mutant of NextEnd: the inner loop has no break, so end is the last index
\* that holds an interaction point.
NextEndLast(seq, I, i) ==
    LET js == {j \in (i + 1)..(Len(seq) - 1) : GetXY(seq, j) \in I}
    IN  IF js = {} THEN 0 ELSE CHOOSE x \in js : \A y \in js : y <= x

\* The inner loop of forEachNonInteractingSegment: the first index after i
\* that holds an interaction point, or the zero value of "var end int".
NextEnd(seq, I, i) ==
    LET js == {j \in (i + 1)..(Len(seq) - 1) : GetXY(seq, j) \in I}
    IN  IF js = {} THEN 0 ELSE Min(js)

\* forEachNonInteractingSegment, as the list of segments it hands to fn and
\* how its loop ends.  With end = 0 and start > 1 the bounds of the slice are
\* reversed and Slice panics; with end = 0 and start <= 1 the slice is taken,
\* fn is called on it and i is set back to 0, which the loop never leaves.
RECURSIVE SegmentLoop(_, _, _, _)
SegmentLoop(seq, I, i, acc) ==
    IF ~(i < Len(seq) - 1) THEN [segs |-> acc, st |-> "ok"]
    ELSE LET start == i
             end   == NextEnd(seq, I, i)
         IN  IF end + 1 < start THEN [segs |-> acc, st |-> "panic"]
             ELSE IF end <= start
                  THEN [segs |-> Append(acc, Slice(seq, start, end + 1)),
                        st |-> "diverge"]
                  ELSE SegmentLoop(seq, I, end,
                                   Append(acc, Slice(seq, start, end + 1)))

forEachNonInteractingSegment(seq, I) == SegmentLoop(seq, I, 0, <<>>)

AppendIncident(verts, xy, e) ==
    [verts EXCEPT ![xy].incidents = Append(@, e)]

----------------------------------------------------------------------------
(* addMultiPolygon.                                                        *)

\* Twice the signed area of a closed ring (positive when counter-clockwise).
RECURSIVE SignedArea2(_, _)
SignedArea2(ring, i) ==
    IF i >= Len(ring) THEN 0
    ELSE ring[i][1] * ring[i + 1][2] - ring[i + 1][1] * ring[i][2]
         + SignedArea2(ring, i + 1)

\* Polygon.ForceCCW: the exterior ring counter-clockwise, the holes clockwise.
ForceCCWPolygon(rings) ==
    [r \in 1..Len(rings) |->
        LET ccw == SignedArea2(rings[r], 1) > 0
        IN  IF (r = 1) = ccw THEN rings[r] ELSE reverseSequence(rings[r])]

ForceCCW(polys) == [p \in 1..Len(polys) |-> ForceCCWPolygon(polys[p])]

\* "Populate vertices", one ring: coordinates i.. of the ring.
RECURSIVE RingVertices(_, _, _, _, _)
RingVertices(verts, ring, i, operand, I) ==
    IF i >= Len(ring) THEN verts
    ELSE LET xy == GetXY(ring, i)
         IN  RingVertices(
                 IF xy \in I /\ xy \notin DOMAIN verts
                 THEN (xy :> vertexRecord(xy, Flag(operand),
                                          newLocationsOnBoundary(operand))) @@ verts
                 ELSE verts,
                 ring, i + 1, operand, I)

RECURSIVE PolygonVertices(_, _, _, _)
PolygonVertices(verts, rings, operand, I) ==
    IF rings = <<>> THEN verts
    ELSE PolygonVertices(RingVertices(verts, Head(rings), 0, operand, I),
                         Tail(rings), operand, I)

\* Mutant of RingSegment: srcFace is set on the external edge as well.
RingSegmentBothFaces(b, segment, operand) ==
    IF b.st # "ok" THEN b
    ELSE IF segment = <<>> THEN [b EXCEPT !.st = "panic"]
    ELSE LET reverseSegment == reverseSequence(segment)
             vertA == GetXY(segment, 0)
             vertB == GetXY(reverseSegment, 0)
             int   == b.base + Len(b.newEdges) + 1
             ext   == int + 1
             internalEdge == halfEdgeRecord(vertA, ext, 0, 0, segment,
                                            Flag(operand), Flag(operand))
             externalEdge == halfEdgeRecord(vertB, int, 0, 0, reverseSegment,
                                            Flag(operand), Flag(operand))
         IN  IF vertA \notin DOMAIN b.vertices \/ vertB \notin DOMAIN b.vertices
             THEN [b EXCEPT !.st = "panic"]
             ELSE [b EXCEPT
                     !.vertices = AppendIncident(
                                      AppendIncident(@, vertA, int), vertB, ext),
                     !.newEdges = @ \o <<internalEdge, externalEdge>>]

\* The callback of addMultiPolygon on one segment.  b is the ring being
\* built: [vertices, newEdges, base, st], base the length of d.halfEdges.
\* GetXY(0) of an empty segment and the append to the incidents of a nil
\* vertex both panic.
RingSegment(b, segment, operand) ==
    IF b.st # "ok" THEN b
    ELSE IF segment = <<>> THEN [b EXCEPT !.st = "panic"]
    ELSE LET reverseSegment == reverseSequence(segment)
             vertA == GetXY(segment, 0)
             vertB == GetXY(reverseSegment, 0)
             int   == b.base + Len(b.newEdges) + 1
             ext   == int + 1
             internalEdge == halfEdgeRecord(vertA, ext, 0, 0, segment,
                                            Flag(operand), Flag(operand))
             externalEdge == halfEdgeRecord(vertB, int, 0, 0, reverseSegment,
                                            Flag(operand), NoFlags)
         IN  IF vertA \notin DOMAIN b.vertices \/ vertB \notin DOMAIN b.vertices
             THEN [b EXCEPT !.st = "panic"]
             ELSE [b EXCEPT
                     !.vertices = AppendIncident(
                                      AppendIncident(@, vertA, int), vertB, ext),
                     !.newEdges = @ \o <<internalEdge, externalEdge>>]

RECURSIVE RingSegments(_, _, _)
RingSegments(b, segs, operand) ==
    IF segs = <<>> THEN b
    ELSE RingSegments(RingSegment(b, Head(segs), operand), Tail(segs), operand)

\* Mutant of LinkEdges: the external edges are linked in the direction of the
\* internal ones (next and prev of the external edge exchanged).
LinkEdgesSameDirection(newEdges, base) ==
    LET numEdges == Len(newEdges)
    IN  [k \in 1..numEdges |->
            LET i == (k - 1) \div 2
            IN  IF (k - 1) % 2 = 0
                THEN [newEdges[k] EXCEPT
                        !.next = base + 1 + ((2 * i + 2) % numEdges),
                        !.prev = base + 1 + ((2 * i - 2 + numEdges) % numEdges)]
                ELSE [newEdges[k] EXCEPT
                        !.next = base + 1 + ((2 * i + 3) % numEdges),
                        !.prev = base + 1 + ((2 * i - 1 + numEdges) % numEdges)]]

\* "Link together next/prev pointers": newEdges[k] for the 0-based index k.
LinkEdges(newEdges, base) ==
    LET numEdges == Len(newEdges)
    IN  [k \in 1..numEdges |->
            LET i == (k - 1) \div 2
            IN  IF (k - 1) % 2 = 0
                THEN [newEdges[k] EXCEPT
                        !.next = base + 1 + ((2 * i + 2) % numEdges),
                        !.prev = base + 1 + ((2 * i - 2 + numEdges) % numEdges)]
                ELSE [newEdges[k] EXCEPT
                        !.next = base + 1 + ((2 * i - 1 + numEdges) % numEdges),
                        !.prev = base + 1 + ((2 * i + 3) % numEdges)]]

\* One ring: its segments, their edges, the links and the append to
\* d.halfEdges (which a panic or a loop without end never reaches).
AddRing(d, ring, operand, I) ==
    IF d.st # "ok" THEN d
    ELSE LET sg == forEachNonInteractingSegment(ring, I)
             b  == RingSegments([vertices |-> d.vertices, newEdges |-> <<>>,
                                 base |-> Len(d.halfEdges), st |-> "ok"],
                                sg.segs, operand)
         IN  IF b.st # "ok" \/ sg.st # "ok"
             THEN [vertices |-> b.vertices, halfEdges |-> d.halfEdges,
                   st |-> IF b.st # "ok" THEN b.st ELSE sg.st]
             ELSE [vertices |-> b.vertices,
                   halfEdges |-> d.halfEdges \o LinkEdges(b.newEdges, b.base),
                   st |-> "ok"]

RECURSIVE AddRings(_, _, _, _)
AddRings(d, rings, operand, I) ==
    IF rings = <<>> THEN d
    ELSE AddRings(AddRing(d, Head(rings), operand, I), Tail(rings), operand, I)

AddPolygon(d, rings, operand, I) ==
    IF d.st # "ok" THEN d
    ELSE AddRings([d EXCEPT !.vertices = PolygonVertices(@, rings, operand, I)],
                  rings, operand, I)

RECURSIVE AddPolygons(_, _, _, _)
AddPolygons(d, polys, operand, I) ==
    IF polys = <<>> THEN d
    ELSE AddPolygons(AddPolygon(d, Head(polys), operand, I),
                     Tail(polys), operand, I)

addMultiPolygon(d, mp, operand, I) == AddPolygons(d, ForceCCW(mp), operand, I)

----------------------------------------------------------------------------
(* addMultiLineString.                                                     *)

\* Mutant of LineVertex: a line string that passes through an existing
\* vertex clears its boundary flag.
LineVertexClearsBoundary(verts, xy, onBoundary, operand) ==
    IF xy \notin DOMAIN verts
    THEN LET locs == IF onBoundary
                     THEN [NoLocations EXCEPT ![operand].boundary = TRUE]
                     ELSE [NoLocations EXCEPT ![operand].interior = TRUE]
         IN  (xy :> vertexRecord(xy, Flag(operand), locs)) @@ verts
    ELSE IF onBoundary
         THEN IF verts[xy].locations[operand].boundary
              THEN [verts EXCEPT ![xy].locations[operand] =
                                     [boundary |-> FALSE, interior |-> TRUE]]
              ELSE [verts EXCEPT ![xy].locations[operand] =
                                     [boundary |-> TRUE, interior |-> FALSE]]
         ELSE [verts EXCEPT ![xy].locations[operand] =
                                [boundary |-> FALSE, interior |-> TRUE]]

\* Mutant of LineVertex: no mod-2 rule, an end point is always made a
\* boundary point.
LineVertexNoMod2(verts, xy, onBoundary, operand) ==
    IF xy \notin DOMAIN verts
    THEN LET locs == IF onBoundary
                     THEN [NoLocations EXCEPT ![operand].boundary = TRUE]
                     ELSE [NoLocations EXCEPT ![operand].interior = TRUE]
         IN  (xy :> vertexRecord(xy, Flag(operand), locs)) @@ verts
    ELSE IF onBoundary
         THEN [verts EXCEPT ![xy].locations[operand] =
                                [boundary |-> TRUE, interior |-> FALSE]]
         ELSE [verts EXCEPT ![xy].locations[operand].interior = TRUE]

\* The body of the "Add vertices" loop for coordinate xy of a line string.
LineVertex(verts, xy, onBoundary, operand) ==
    IF xy \notin DOMAIN verts
    THEN LET locs == IF onBoundary
                     THEN [NoLocations EXCEPT ![operand].boundary = TRUE]
                     ELSE [NoLocations EXCEPT ![operand].interior = TRUE]
         IN  (xy :> vertexRecord(xy, Flag(operand), locs)) @@ verts
    ELSE IF onBoundary
         THEN IF verts[xy].locations[operand].boundary
              THEN [verts EXCEPT ![xy].locations[operand] =
                                     [boundary |-> FALSE, interior |-> TRUE]]
              ELSE [verts EXCEPT ![xy].locations[operand] =
                                     [boundary |-> TRUE, interior |-> FALSE]]
         ELSE [verts EXCEPT ![xy].locations[operand].interior = TRUE]

RECURSIVE LineVertices(_, _, _, _, _)
LineVertices(verts, seq, j, operand, I) ==
    IF j >= Len(seq) THEN verts
    ELSE LET xy == GetXY(seq, j)
             n  == Len(seq)
             onBoundary == (j = 0 \/ j = n - 1) /\ ~IsClosed(seq)
         IN  LineVertices(
                 IF xy \in I THEN LineVertex(verts, xy, onBoundary, operand)
                 ELSE verts,
                 seq, j + 1, operand, I)

RECURSIVE MultiLineVertices(_, _, _, _)
MultiLineVertices(verts, lines, operand, I) ==
    IF lines = <<>> THEN verts
    ELSE MultiLineVertices(LineVertices(verts, Head(lines), 0, operand, I),
                           Tail(lines), operand, I)

\* edgeSet: the segments inserted, each keyed by its coordinates.
containsStartIntermediateEnd(edges, segment) == segment \in edges

insertStartIntermediateEnd(edges, segment) == edges \cup {segment}

\* Mutant of AddLinePair: the reverse edge is given the segment itself, not
\* the reversed segment.
AddLinePairSameSeq(b, segment, srcEdge) ==
    LET reverseSegment == reverseSequence(segment)
        startXY == GetXY(segment, 0)
        endXY   == GetXY(reverseSegment, 0)
        f == Len(b.halfEdges) + 1
        r == f + 1
        fwd == halfEdgeRecord(startXY, r, r, r, segment, srcEdge, NoFlags)
        rev == halfEdgeRecord(endXY, f, f, f, segment, srcEdge, NoFlags)
    IN  IF startXY \notin DOMAIN b.vertices \/ endXY \notin DOMAIN b.vertices
        THEN [b EXCEPT !.st = "panic"]
        ELSE [b EXCEPT
                !.vertices = AppendIncident(
                                 AppendIncident(@, startXY, f), endXY, r),
                !.halfEdges = @ \o <<fwd, rev>>]

\* A twin pair whose next and prev are the twin (a free-standing line).
\* b is [vertices, halfEdges, edges, st].
AddLinePair(b, segment, srcEdge) ==
    LET reverseSegment == reverseSequence(segment)
        startXY == GetXY(segment, 0)
        endXY   == GetXY(reverseSegment, 0)
        f == Len(b.halfEdges) + 1
        r == f + 1
        fwd == halfEdgeRecord(startXY, r, r, r, segment, srcEdge, NoFlags)
        rev == halfEdgeRecord(endXY, f, f, f, reverseSegment, srcEdge, NoFlags)
    IN  IF startXY \notin DOMAIN b.vertices \/ endXY \notin DOMAIN b.vertices
        THEN [b EXCEPT !.st = "panic"]
        ELSE [b EXCEPT
                !.vertices = AppendIncident(
                                 AppendIncident(@, startXY, f), endXY, r),
                !.halfEdges = @ \o <<fwd, rev>>]

\* The callback of addMultiLineString on one segment.
LineSegment(b, segment, operand) ==
    IF b.st # "ok" THEN b
    ELSE IF segment = <<>> THEN [b EXCEPT !.st = "panic"]
    ELSE IF containsStartIntermediateEnd(b.edges, segment) THEN b
    ELSE AddLinePair(
             [b EXCEPT !.edges = insertStartIntermediateEnd(
                                     insertStartIntermediateEnd(@, segment),
                                     reverseSequence(segment))],
             segment, Flag(operand))

RECURSIVE LineSegments(_, _, _)
LineSegments(b, segs, operand) ==
    IF segs = <<>> THEN b
    ELSE LineSegments(LineSegment(b, Head(segs), operand), Tail(segs), operand)

\* The "Add edges" loop for one line string.
AddLineEdges(b, seq, operand, I) ==
    IF b.st # "ok" THEN b
    ELSE LET sg == forEachNonInteractingSegment(seq, I)
             b1 == LineSegments(b, sg.segs, operand)
         IN  IF b1.st # "ok" THEN b1 ELSE [b1 EXCEPT !.st = sg.st]

RECURSIVE AddLinesEdges(_, _, _, _)
AddLinesEdges(b, lines, operand, I) ==
    IF lines = <<>> THEN b
    ELSE AddLinesEdges(AddLineEdges(b, Head(lines), operand, I),
                       Tail(lines), operand, I)

addMultiLineString(d, mls, operand, I) ==
    IF d.st # "ok" THEN d
    ELSE LET b == AddLinesEdges(
                      [vertices |-> MultiLineVertices(d.vertices, mls, operand, I),
                       halfEdges |-> d.halfEdges, edges |-> {}, st |-> "ok"],
                      mls, operand, I)
         IN  [vertices |-> b.vertices, halfEdges |-> b.halfEdges, st |-> b.st]

----------------------------------------------------------------------------
(* addMultiPoint, addGeometryCollection, addGeometry.                      *)

PointVertex(verts, xy, operand) ==
    LET present == IF xy \in DOMAIN verts THEN verts
                   ELSE (xy :> vertexRecord(xy, NoFlags, NoLocations)) @@ verts
    IN  [present EXCEPT ![xy].src[operand] = TRUE,
                        ![xy].locations[operand].interior = TRUE]

RECURSIVE PointVertices(_, _, _)
PointVertices(verts, pts, operand) ==
    IF pts = <<>> THEN verts
    ELSE PointVertices(PointVertex(verts, Head(pts), operand), Tail(pts), operand)

addMultiPoint(d, mp, operand) ==
    IF d.st # "ok" THEN d
    ELSE [d EXCEPT !.vertices = PointVertices(@, mp, operand)]

\* addGeometry on a geometry that is no collection.
AddSimpleGeometry(d, g, operand, I) ==
    CASE g.type \in {"Polygon", "MultiPolygon"} ->
             addMultiPolygon(d, g.polys, operand, I)
      [] g.type \in {"LineString", "MultiLineString"} ->
             addMultiLineString(d, g.lines, operand, I)
      [] OTHER -> addMultiPoint(d, g.pts, operand)

RECURSIVE addGeometryCollection(_, _, _, _)
addGeometryCollection(d, children, operand, I) ==
    IF children = <<>> THEN d
    ELSE addGeometryCollection(
             IF Head(children).type = "GeometryCollection"
             THEN addGeometryCollection(d, Head(children).geoms, operand, I)
             ELSE AddSimpleGeometry(d, Head(children), operand, I),
             Tail(children), operand, I)

addGeometry(d, g, operand, I) ==
    IF g.type = "GeometryCollection"
    THEN addGeometryCollection(d, g.geoms, operand, I)
    ELSE AddSimpleGeometry(d, g, operand, I)

----------------------------------------------------------------------------
(* addGhosts, addGhostLine and fixVertex.                                  *)

\* The bearing of a half-edge at its origin is that of its first step,
\* seq[1] - seq[0], as a full-turn angle in (-pi, pi]; Quadrant and the sign
\* of the cross product order two bearings without trigonometry.
Bearing(e) == <<GetXY(e.seq, 1)[1] - GetXY(e.seq, 0)[1],
                GetXY(e.seq, 1)[2] - GetXY(e.seq, 0)[2]>>

Quadrant(u) ==
    IF u[2] < 0 THEN 0
    ELSE IF u[2] = 0 /\ u[1] >= 0 THEN 1
    ELSE IF u[2] > 0 THEN 2
    ELSE 3

BearingLess(u, v) ==
    \/ Quadrant(u) < Quadrant(v)
    \/ /\ Quadrant(u) = Quadrant(v)
       /\ Quadrant(u) \in {0, 2}
       /\ u[1] * v[2] - u[2] * v[1] > 0

\* The incidents of a vertex in angular order (equal bearings keep the
\* order in which the edges were appended).
RECURSIVE InsertByBearing(_, _, _)
InsertByBearing(sorted, e, edges) ==
    IF sorted = <<>> THEN <<e>>
    ELSE IF BearingLess(Bearing(edges[e]), Bearing(edges[Head(sorted)]))
         THEN <<e>> \o sorted
         ELSE <<Head(sorted)>> \o InsertByBearing(Tail(sorted), e, edges)

RECURSIVE SortByBearing(_, _)
SortByBearing(incidents, edges) ==
    IF incidents = <<>> THEN <<>>
    ELSE InsertByBearing(
             SortByBearing(SubSeq(incidents, 1, Len(incidents) - 1), edges),
             incidents[Len(incidents)], edges)

\* fixVertex: with the incidents e[0], e[1], ... in angular order, the prev
\* of e[i] becomes the twin of e[i+1] and the next of that twin becomes e[i]
\* (indices modulo the number of incidents).  An incident whose seq has no
\* second coordinate has no bearing, and asking for it panics.
fixVertex(b, v) ==
    IF b.st # "ok" THEN b
    ELSE IF \E k \in 1..Len(b.vertices[v].incidents) :
                 Len(b.halfEdges[b.vertices[v].incidents[k]].seq) < 2
         THEN [b EXCEPT !.st = "panic"]
    ELSE LET inc == SortByBearing(b.vertices[v].incidents, b.halfEdges)
             n   == Len(inc)
             succ(i) == inc[(i % n) + 1]
             pos(e)  == CHOOSE i \in 1..n : inc[i] = e
             twinOfSucc == {b.halfEdges[succ(i)].twin : i \in 1..n}
             from(t) == CHOOSE i \in 1..n : b.halfEdges[succ(i)].twin = t
         IN  [b EXCEPT
                !.vertices[v].incidents = inc,
                !.halfEdges =
                    [h \in 1..Len(b.halfEdges) |->
                        LET e0 == b.halfEdges[h]
                            e1 == IF \E i \in 1..n : inc[i] = h
                                  THEN [e0 EXCEPT
                                          !.prev = b.halfEdges[succ(pos(h))].twin]
                                  ELSE e0
                        IN  IF h \in twinOfSucc
                            THEN [e1 EXCEPT !.next = inc[from(h)]]
                            ELSE e1]]

addGhostLine(b, segment) ==
    LET b1 == AddLinePair(b, segment, NoFlags)
    IN  fixVertex(fixVertex(b1, GetXY(segment, 0)),
                  GetXY(reverseSequence(segment), 0))

GhostVertex(verts, xy) ==
    IF xy \in DOMAIN verts THEN verts
    ELSE (xy :> vertexRecord(xy, NoFlags, NoLocations)) @@ verts

\* The callback of addGhosts on one segment.
GhostSegment(b, segment) ==
    IF b.st # "ok" THEN b
    ELSE IF segment = <<>> THEN [b EXCEPT !.st = "panic"]
    ELSE LET startXY == GetXY(segment, 0)
             endXY   == GetXY(reverseSequence(segment), 0)
             b1 == [b EXCEPT !.vertices =
                                 GhostVertex(GhostVertex(@, startXY), endXY)]
         IN  IF containsStartIntermediateEnd(b1.edges, segment) THEN b1
             ELSE addGhostLine(
                      [b1 EXCEPT !.edges = insertStartIntermediateEnd(
                                     insertStartIntermediateEnd(@, segment),
                                     reverseSequence(segment))],
                      segment)

RECURSIVE GhostSegments(_, _)
GhostSegments(b, segs) ==
    IF segs = <<>> THEN b
    ELSE GhostSegments(GhostSegment(b, Head(segs)), Tail(segs))

AddGhostLineString(b, seq, I) ==
    IF b.st # "ok" THEN b
    ELSE LET sg == forEachNonInteractingSegment(seq, I)
             b1 == GhostSegments(b, sg.segs)
         IN  IF b1.st # "ok" THEN b1 ELSE [b1 EXCEPT !.st = sg.st]

RECURSIVE AddGhostLineStrings(_, _, _)
AddGhostLineStrings(b, lines, I) ==
    IF lines = <<>> THEN b
    ELSE AddGhostLineStrings(AddGhostLineString(b, Head(lines), I),
                             Tail(lines), I)

\* insertEdge for every half-edge the DCEL already has, then the ghosts.
addGhosts(d, mls, I) ==
    IF d.st # "ok" THEN d
    ELSE LET edges == {d.halfEdges[h].seq : h \in 1..Len(d.halfEdges)}
             b == AddGhostLineStrings(
                      [vertices |-> d.vertices, halfEdges |-> d.halfEdges,
                       edges |-> edges, st |-> "ok"], mls, I)
         IN  [vertices |-> b.vertices, halfEdges |-> b.halfEdges, st |-> b.st]

----------------------------------------------------------------------------
(* The inputs of the runs.                                                 *)

SeqsUpTo(S, lo, hi) == UNION {[1..n -> S] : n \in lo..hi}

Triangle == <<<<0, 0>>, <<1, 0>>, <<1, 1>>, <<0, 0>>>>

\* The geometries handed to the builder: points, open and closed line
\* strings that share end points, overlap and pass through each other's end
\* points, polygons in both orientations, with a hole and touching at a
\* vertex, and collections of them (one with a repeated child, one nested).
BuilderGeometries ==
    { Point(<<0, 0>>),
      MultiPoint(<<<<1, 0>>, <<1, 1>>>>),
      EmptyPoint,
      LineString(<<<<0, 0>>, <<1, 0>>>>),
      LineString(<<<<0, 0>>, <<1, 0>>, <<2, 0>>>>),
      LineString(Triangle),
      MultiLineString(<< <<<<0, 0>>, <<1, 0>>>>,
                         <<<<0, 1>>, <<1, 0>>, <<2, 1>>>> >>),
      MultiLineString(<< <<<<0, 0>>, <<1, 0>>>>, <<<<2, 0>>, <<1, 0>>>> >>),
      Polygon(<<Triangle>>),
      Polygon(<<reverseSequence(Triangle)>>),
      Polygon(<< <<<<0, 2>>, <<3, 2>>, <<3, 5>>, <<0, 5>>, <<0, 2>>>>,
                 <<<<1, 3>>, <<2, 3>>, <<1, 4>>, <<1, 3>>>> >>),
      MultiPolygon(<< <<Triangle>>,
                      << <<<<1, 0>>, <<2, 0>>, <<2, 1>>, <<1, 0>>>> >> >>),
      GeometryCollection(<<LineString(<<<<0, 0>>, <<1, 0>>>>),
                           LineString(<<<<0, 0>>, <<1, 0>>>>)>>),
      GeometryCollection(<<Polygon(<<Triangle>>),
                           GeometryCollection(<<Point(<<1, 1>>)>>)>>) }

\* The ghost lines: none, one through a coordinate that is no interaction
\* point, and two that run along edges the geometries may already have.
GhostLines ==
    { <<>>,
      << <<<<0, 0>>, <<0, 1>>, <<1, 1>>>> >>,
      << <<<<0, 0>>, <<1, 0>>>>, <<<<1, 0>>, <<1, 1>>>> >> }

BuilderCalls == [g : BuilderGeometries, op : Operands]

\* The caller flattens collections before it calls findInteractionPoints.
RECURSIVE Flatten(_)
Flatten(geoms) ==
    IF geoms = <<>> THEN <<>>
    ELSE (IF Head(geoms).type = "GeometryCollection"
          THEN Flatten(Head(geoms).geoms) ELSE <<Head(geoms)>>)
         \o Flatten(Tail(geoms))

\* What the caller hands to findInteractionPoints: the geometries of both
\* operands and the ghost lines.
FinderInput(calls, lines) ==
    Flatten([i \in 1..Len(calls) |-> calls[i].g]) \o <<MultiLineString(lines)>>

----------------------------------------------------------------------------
(* The builder as a state machine: the caller has the interaction set of   *)
(* all its geometries and ghost lines, then adds gs[1], gs[2], ... with     *)
(* addGeometry and at last the ghost lines with addGhosts.                 *)

D == [vertices |-> vertices, halfEdges |-> halfEdges, st |-> "ok"]

Return(d, returned) ==
    /\ vertices' = d.vertices
    /\ halfEdges' = d.halfEdges
    /\ pc' = CASE d.st = "panic" -> "panicked"
              [] d.st = "diverge" -> "diverged"
              [] OTHER -> returned

Init ==
    /\ gs \in SeqsUpTo(BuilderCalls, 0, MaxCalls)
    /\ ghosts \in GhostLines
    /\ done = 0
    /\ interactions = findInteractionPoints(FinderInput(gs, ghosts))
    /\ adjacents = EmptyMap
    /\ vertices = EmptyMap
    /\ halfEdges = <<>>
    /\ hullPts = <<>>
    /\ hull = <<>>
    /\ result = NoResult
    /\ pc = "building"

\* The variant of the geometry the next call of addGeometry is given.
NextType == IF done < Len(gs) THEN gs[done + 1].g.type ELSE "none"

AddNext ==
    /\ Return(addGeometry(D, gs[done + 1].g, gs[done + 1].op, interactions),
              "building")
    /\ done' = done + 1
    /\ UNCHANGED <<gs, ghosts, interactions, adjacents, hullPts, hull, result>>

AddPointGeometry ==
    /\ pc = "building"
    /\ NextType \in {"Point", "MultiPoint"}
    /\ AddNext

AddLineGeometry ==
    /\ pc = "building"
    /\ NextType \in {"LineString", "MultiLineString"}
    /\ AddNext

AddPolygonGeometry ==
    /\ pc = "building"
    /\ NextType \in {"Polygon", "MultiPolygon"}
    /\ AddNext

AddCollection ==
    /\ pc = "building"
    /\ NextType = "GeometryCollection"
    /\ AddNext

AddGhosts ==
    /\ pc = "building"
    /\ done = Len(gs)
    /\ Return(addGhosts(D, ghosts, interactions), "built")
    /\ UNCHANGED <<gs, ghosts, done, interactions, adjacents, hullPts, hull, result>>

Next ==
    \/ AddPointGeometry
    \/ AddLineGeometry
    \/ AddPolygonGeometry
    \/ AddCollection
    \/ AddGhosts

Spec == Init /\ [][Next]_vars

----------------------------------------------------------------------------
(* The builder with an interaction set that need not be the one of its     *)
(* geometries: any set of these coordinates.                               *)

LoosePoints == {<<0, 0>>, <<1, 0>>, <<1, 1>>}

InitLoose ==
    /\ gs \in SeqsUpTo(BuilderCalls, 0, MaxCalls)
    /\ ghosts \in GhostLines
    /\ done = 0
    /\ interactions \in SUBSET LoosePoints
    /\ adjacents = EmptyMap
    /\ vertices = EmptyMap
    /\ halfEdges = <<>>
    /\ hullPts = <<>>
    /\ hull = <<>>
    /\ result = NoResult
    /\ pc = "building"

SpecLoose == InitLoose /\ [][Next]_vars

----------------------------------------------------------------------------
(* One MultiLineString added to an empty DCEL, for the mod-2 rule: open    *)
(* line strings that start or end at (1,0), one that passes through it and *)
(* a closed one that starts and ends there.                                *)

Mod2Lines ==
    { <<<<0, 0>>, <<1, 0>>>>,
      <<<<1, 0>>, <<2, 0>>>>,
      <<<<1, 1>>, <<1, 0>>>>,
      <<<<0, 1>>, <<1, 0>>, <<2, 1>>>>,
      <<<<1, 0>>, <<2, -1>>, <<1, -1>>, <<1, 0>>>> }

InitMod2 ==
    /\ \E mls \in SeqsUpTo(Mod2Lines, 1, MaxLines), op \in Operands :
           gs = <<[g |-> MultiLineString(mls), op |-> op]>>
    /\ ghosts = <<>>
    /\ done = 0
    /\ interactions = findInteractionPoints(FinderInput(gs, ghosts))
    /\ adjacents = EmptyMap
    /\ vertices = EmptyMap
    /\ halfEdges = <<>>
    /\ hullPts = <<>>
    /\ hull = <<>>
    /\ result = NoResult
    /\ pc = "building"

SpecMod2 == InitMod2 /\ [][AddLineGeometry]_vars

----------------------------------------------------------------------------
(* findInteractionPoints as a state machine: one step per geometry of the  *)
(* list, on the maps adjacents and interactions.                           *)

FinderPoints == {<<0, 0>>, <<1, 0>>, <<2, 0>>, <<1, 1>>}

\* The line strings over FinderPoints without consecutive repeated coordinates.
FinderLines ==
    {l \in SeqsUpTo(FinderPoints, 2, MaxLineLen) :
        \A i \in 1..(Len(l) - 1) : l[i] # l[i + 1]}

\* Scenario S4: the line (0,0),(2,2),(0,2),(2,0) noded at its crossing (1,1).
SelfCrossingLine ==
    <<<<0, 0>>, <<1, 1>>, <<2, 2>>, <<0, 2>>, <<1, 1>>, <<2, 0>>>>

\* The line strings of three coordinates that pass through (1,0).
ThroughLines == {l \in FinderLines : Len(l) = 3 /\ l[2] = <<1, 0>>}

FinderLists ==
    {<<LineString(l1), LineString(l2)>> : l1 \in FinderLines, l2 \in FinderLines}
    \cup {<<LineString(l1), LineString(l2), LineString(l3)>> :
              l1 \in ThroughLines, l2 \in ThroughLines, l3 \in ThroughLines}
    \cup {<<LineString(l1), Point(<<1, 0>>), LineString(l2)>> :
              l1 \in ThroughLines, l2 \in ThroughLines}
    \cup {<<LineString(SelfCrossingLine)>>}
    \cup {<<Point(<<1, 1>>), GeometryCollection(<<Point(<<0, 0>>)>>)>>}

InitFind ==
    /\ \E l \in FinderLists : gs = [i \in 1..Len(l) |-> [g |-> l[i], op |-> 0]]
    /\ ghosts = <<>>
    /\ done = 0
    /\ interactions = {}
    /\ adjacents = EmptyMap
    /\ vertices = EmptyMap
    /\ halfEdges = <<>>
    /\ hullPts = <<>>
    /\ hull = <<>>
    /\ result = NoResult
    /\ pc = "finding"

\* One iteration of the loop of findInteractionPoints.
AddGeometryInteractions ==
    /\ pc = "finding"
    /\ done < Len(gs)
    /\ LET st == addGeometryInteractions(
                     gs[done + 1].g, [adj |-> adjacents, ints |-> interactions])
       IN  /\ adjacents' = st.adj
           /\ interactions' = st.ints
    /\ done' = done + 1
    /\ pc' = IF gs[done + 1].g.type = "GeometryCollection" THEN "panicked"
             ELSE IF done + 1 = Len(gs) THEN "found" ELSE "finding"
    /\ UNCHANGED <<gs, ghosts, vertices, halfEdges, hullPts, hull, result>>

SpecFind == InitFind /\ [][AddGeometryInteractions]_vars

----------------------------------------------------------------------------
(* The convex hull.                                                        *)

\* most points of the point sets enumerated for the convex hull
MaxPoints == 4

\* orientation(a, b, c): the sign of the cross product (b - a) x (c - a).
orientation(a, b, c) ==
    LET cp == (b[1] - a[1]) * (c[2] - a[2]) - (b[2] - a[2]) * (c[1] - a[1])
    IN  IF cp > 0 THEN "leftTurn" ELSE IF cp < 0 THEN "rightTurn" ELSE "collinear"

RECURSIVE IsEmpty(_)
IsEmpty(g) ==
    CASE g.type \in {"Point", "MultiPoint"} -> g.pts = <<>>
      [] g.type = "LineString" -> g.lines[1] = <<>>
      [] g.type = "MultiLineString" ->
            \A i \in 1..Len(g.lines) : g.lines[i] = <<>>
      [] g.type = "Polygon" -> g.polys[1] = <<>>
      [] g.type = "MultiPolygon" ->
            \A i \in 1..Len(g.polys) : g.polys[i] = <<>>
      [] OTHER -> \A i \in 1..Len(g.geoms) : IsEmpty(g.geoms[i])

\* Polygon.ExteriorRing: the first ring, the empty line string if there is none.
ExteriorRing(rings) == IF rings = <<>> THEN <<>> ELSE rings[1]

RECURSIVE ExteriorRings(_)
ExteriorRings(polys) ==
    IF polys = <<>> THEN <<>>
    ELSE ExteriorRing(Head(polys)) \o ExteriorRings(Tail(polys))

RECURSIVE convexHullPointSet(_)
RECURSIVE CollectionPointSet(_)
CollectionPointSet(geoms) ==
    IF geoms = <<>> THEN <<>>
    ELSE convexHullPointSet(Head(geoms)) \o CollectionPointSet(Tail(geoms))

\* A MultiPoint holds its non-empty points only, which are the points the
\* code keeps.
convexHullPointSet(g) ==
    CASE g.type = "GeometryCollection" -> CollectionPointSet(g.geoms)
      [] g.type \in {"Point", "MultiPoint"} -> g.pts
      [] g.type = "LineString" -> g.lines[1]
      [] g.type = "Polygon" -> ExteriorRing(g.polys[1])
      [] g.type = "MultiLineString" -> Boundary(g.lines)
      [] OTHER -> ExteriorRings(g.polys)

hasAtLeast2DistinctPoints(ps) ==
    Len(ps) > 1 /\ \E i \in 2..Len(ps) : ps[i] # ps[1]

\* The pair (half, ok) that isLinearHull returns.
isLinearHull(h) ==
    LET i == Len(h) \div 2
    IN  IF Len(h) % 2 = 0 THEN [half |-> <<>>, ok |-> FALSE]
        ELSE IF GetXY(h, i - 1) # GetXY(h, i + 1)
        THEN [half |-> <<>>, ok |-> FALSE]
        ELSE [half |-> Slice(h, 0, i + 1), ok |-> TRUE]

\* The less function that monotoneChain hands to sort.Slice.
ChainLess(p, q) == IF p[1] # q[1] THEN p[1] < q[1] ELSE p[2] < q[2]

\* sort.Slice: elements that compare equal are equal XYs, so every sorting
\* algorithm gives this result.
RECURSIVE SortXY(_)
SortXY(ps) ==
    IF ps = <<>> THEN <<>>
    ELSE LET rest == SortXY(Tail(ps))
             k == Cardinality({i \in 1..Len(rest) : ChainLess(rest[i], Head(ps))})
         IN  SubSeq(rest, 1, k) \o <<Head(ps)>> \o SubSeq(rest, k + 1, Len(rest))

\* Mutant of ChainPush: left turns are popped and right turns kept.
RECURSIVE ChainPushRightTurn(_, _)
ChainPushRightTurn(stack, p) ==
    IF Len(stack) >= 2
       /\ orientation(stack[Len(stack) - 1], stack[Len(stack)], p) # "rightTurn"
    THEN ChainPushRightTurn(SubSeq(stack, 1, Len(stack) - 1), p)
    ELSE Append(stack, p)

\* Mutant of ChainPush: collinear points are kept, only right turns popped.
RECURSIVE ChainPushKeepCollinear(_, _)
ChainPushKeepCollinear(stack, p) ==
    IF Len(stack) >= 2
       /\ orientation(stack[Len(stack) - 1], stack[Len(stack)], p) = "rightTurn"
    THEN ChainPushKeepCollinear(SubSeq(stack, 1, Len(stack) - 1), p)
    ELSE Append(stack, p)

\* The body of either scan: pop while the top two points and p make no left
\* turn, then push p.
RECURSIVE ChainPush(_, _)
ChainPush(stack, p) ==
    IF Len(stack) >= 2
       /\ orientation(stack[Len(stack) - 1], stack[Len(stack)], p) # "leftTurn"
    THEN ChainPush(SubSeq(stack, 1, Len(stack) - 1), p)
    ELSE Append(stack, p)

\* One scan over ps in the order given, from the stack given.
RECURSIVE ChainScan(_, _)
ChainScan(stack, ps) ==
    IF ps = <<>> THEN stack ELSE ChainScan(ChainPush(stack, Head(ps)), Tail(ps))

\* monotoneChain on the sorted slice.
ChainOfSorted(sorted) ==
    LET lower == ChainScan(<<>>, sorted)
        upper == ChainScan(<<>>, reverseSequence(sorted))
    IN  lower \o Tail(upper)

monotoneChain(ps) == ChainOfSorted(SortXY(ps))

\* NewLineString and NewPolygonFromRings accept a closed ring of at least
\* four coordinates.
ValidRing(h) == Len(h) >= 4 /\ IsClosed(h)

(* convexHull as a state machine: the emptiness test, the collection of    *)
(* the points, the test for two distinct points, the chain and the test    *)
(* for a linear hull.                                                      *)

HullGrid == (0..2) \X (0..2)

Square == <<<<0, 0>>, <<2, 0>>, <<2, 2>>, <<0, 2>>, <<0, 0>>>>

\* Every MultiPoint of up to MaxPoints grid points (repeated points
\* allowed), and geometries of the other variants: empty ones, a
\* polygon whose second ring reaches outside its exterior ring, a clockwise
\* ring, collinear and coincident line strings, nested collections.
HullGeometries ==
    {MultiPoint(ps) : ps \in SeqsUpTo(HullGrid, 0, MaxPoints)}
    \cup { Point(<<1, 1>>),
           LineString(<<<<2, 1>>, <<0, 0>>, <<2, 1>>>>),
           LineString(<<<<2, 2>>, <<1, 1>>, <<0, 0>>, <<1, 1>>>>),
           LineString(<<<<1, 2>>, <<0, 0>>, <<1, 0>>, <<0, 1>>, <<1, 2>>>>),
           EmptyPoint,
           LineString(<<>>),
           Polygon(<<>>),
           GeometryCollection(<<>>),
           GeometryCollection(<<EmptyPoint, MultiPoint(<<>>)>>),
           Polygon(<<Square>>),
           Polygon(<<reverseSequence(Square)>>),
           Polygon(<<Triangle, <<<<1, 1>>, <<3, 3>>, <<1, 3>>, <<1, 1>>>> >>),
           MultiLineString(<< <<<<0, 0>>, <<1, 1>>>>, <<<<2, 2>>, <<3, 3>>>> >>),
           MultiLineString(<< <<<<0, 0>>, <<3, 1>>>>, <<<<1, 2>>, <<1, 2>>>> >>),
           MultiPolygon(<< <<Triangle>>,
                           << <<<<1, 0>>, <<2, 0>>, <<2, 1>>, <<1, 0>>>> >> >>),
           GeometryCollection(<<Point(<<0, 0>>), EmptyPoint,
                                GeometryCollection(<<Point(<<0, 0>>)>>)>>),
           GeometryCollection(<<LineString(<<<<0, 0>>, <<2, 1>>>>),
                                GeometryCollection(<<Polygon(<<Triangle>>),
                                                     Point(<<0, 3>>)>>)>>),
           MultiPoint(<<<<0, 0>>, <<1, 0>>, <<2, 0>>, <<3, 0>>>>),
           MultiPoint(<<<<1, 1>>, <<0, 0>>, <<3, 1>>, <<2, 3>>, <<0, 2>>,
                        <<2, 0>>, <<1, 3>>, <<1, 1>>>>) }

InitHull ==
    /\ \E g \in HullGeometries : gs = <<[g |-> g, op |-> 0]>>
    /\ ghosts = <<>>
    /\ done = 0
    /\ interactions = {}
    /\ adjacents = EmptyMap
    /\ vertices = EmptyMap
    /\ halfEdges = <<>>
    /\ hullPts = <<>>
    /\ hull = <<>>
    /\ result = NoResult
    /\ pc = "hull"

HullUnchanged == UNCHANGED <<gs, ghosts, done, interactions, adjacents,
                             vertices, halfEdges>>

\* An empty geometry is returned as it is (Force2D changes no XY).
ReturnEmpty ==
    /\ pc = "hull"
    /\ IsEmpty(gs[1].g)
    /\ result' = gs[1].g
    /\ pc' = "returned"
    /\ UNCHANGED <<hullPts, hull>>
    /\ HullUnchanged

CollectPoints ==
    /\ pc = "hull"
    /\ ~IsEmpty(gs[1].g)
    /\ hullPts' = convexHullPointSet(gs[1].g)
    /\ pc' = "collected"
    /\ UNCHANGED <<hull, result>>
    /\ HullUnchanged

ReturnPoint ==
    /\ pc = "collected"
    /\ ~hasAtLeast2DistinctPoints(hullPts)
    /\ IF hullPts = <<>>
       THEN pc' = "panicked" /\ UNCHANGED result
       ELSE pc' = "returned" /\ result' = Point(GetXY(hullPts, 0))
    /\ UNCHANGED <<hullPts, hull>>
    /\ HullUnchanged

\* monotoneChain sorts the slice of its caller in place.
MonotoneChain ==
    /\ pc = "collected"
    /\ hasAtLeast2DistinctPoints(hullPts)
    /\ hullPts' = SortXY(hullPts)
    /\ hull' = monotoneChain(hullPts)
    /\ pc' = "chained"
    /\ UNCHANGED result
    /\ HullUnchanged

ReturnLineString ==
    /\ pc = "chained"
    /\ isLinearHull(hull).ok
    /\ LET half == isLinearHull(hull).half
       IN  result' = LineString(<<GetXY(half, 0), GetXY(half, Len(half) - 1)>>)
    /\ pc' = "returned"
    /\ UNCHANGED <<hullPts, hull>>
    /\ HullUnchanged

ReturnPolygon ==
    /\ pc = "chained"
    /\ ~isLinearHull(hull).ok
    /\ IF ValidRing(hull)
       THEN pc' = "returned" /\ result' = Polygon(<<hull>>)
       ELSE pc' = "panicked" /\ UNCHANGED result
    /\ UNCHANGED <<hullPts, hull>>
    /\ HullUnchanged

convexHull ==
    \/ ReturnEmpty
    \/ CollectPoints
    \/ ReturnPoint
    \/ MonotoneChain
    \/ ReturnLineString
    \/ ReturnPolygon

SpecHull == InitHull /\ [][convexHull]_vars

----------------------------------------------------------------------------
(* Properties of the builder.                                              *)

\* The builder has returned from every call so far.
Returned == pc \in {"building", "built"}

Edges == 1..Len(halfEdges)

Last(seq) == seq[Len(seq)]

PointTypes == {"Point", "MultiPoint"}

\* C1: in a DCEL built by addGeometry calls followed by addGhosts (and at
\* every point of the build before), every half-edge e has a twin that is
\* another half-edge, the twin of that twin is e, and the twin's seq is the
\* seq of e with its coordinates in reverse order.
C1_TwinInvariant ==
    Returned =>
        \A e \in Edges :
            LET t == halfEdges[e].twin
            IN  /\ t \in Edges
                /\ t # e
                /\ halfEdges[t].twin = e
                /\ Len(halfEdges[t].seq) = Len(halfEdges[e].seq)
                /\ \A i \in 1..Len(halfEdges[e].seq) :
                       halfEdges[t].seq[i] =
                           halfEdges[e].seq[Len(halfEdges[e].seq) + 1 - i]

\* C1 witness: addGhosts has returned a DCEL that holds an edge of a polygon
\* ring, an edge of a line string and a ghost edge with an interior coordinate.
C1_Witness ==
    /\ pc = "built"
    /\ \E e \in Edges : \E k \in Operands : halfEdges[e].srcFace[k]
    /\ \E e \in Edges : /\ halfEdges[e].srcEdge # NoFlags
                         /\ halfEdges[e].srcFace = NoFlags
                         /\ halfEdges[halfEdges[e].twin].srcFace = NoFlags
    /\ \E e \in Edges : halfEdges[e].srcEdge = NoFlags /\ Len(halfEdges[e].seq) > 2

RECURSIVE NextTimes(_, _)
NextTimes(e, k) == IF k = 0 THEN e ELSE halfEdges[NextTimes(e, k - 1)].next

\* C2: after any sequence of addGeometry calls, for every half-edge e:
\* e.next.prev = e and e.prev.next = e, following next from e comes back to e,
\* and the origin of e.next is the vertex at the last coordinate of e.seq,
\* which is also the origin of e.twin.
C2_NextPrevCycles ==
    pc = "building" =>
        \A e \in Edges :
            /\ halfEdges[e].next \in Edges
            /\ halfEdges[e].prev \in Edges
            /\ halfEdges[halfEdges[e].next].prev = e
            /\ halfEdges[halfEdges[e].prev].next = e
            /\ \E k \in 1..Len(halfEdges) : NextTimes(e, k) = e
            /\ halfEdges[halfEdges[e].next].origin = Last(halfEdges[e].seq)
            /\ halfEdges[halfEdges[e].twin].origin = Last(halfEdges[e].seq)

\* C2 witness: the calls have returned a DCEL with a ring that gave a single
\* twin pair (next is the edge itself), a line-string pair (next is the twin)
\* and a ring of several pairs (next is a third edge).
C2_Witness ==
    /\ pc = "building"
    /\ done = Len(gs)
    /\ \E e \in Edges : halfEdges[e].next = e
    /\ \E e \in Edges : halfEdges[e].next = halfEdges[e].twin
    /\ \E e \in Edges : halfEdges[e].next \notin {e, halfEdges[e].twin}

\* C3: after any sequence of addGeometry calls, for every vertex v and every
\* operand k at most one of v.locations[k].boundary and
\* v.locations[k].interior is true.
C3_ExclusiveLocations ==
    Returned =>
        \A v \in DOMAIN vertices : \A k \in Operands :
            ~(vertices[v].locations[k].boundary /\ vertices[v].locations[k].interior)

\* The number of non-closed line strings of mls that start or end at p.
EndCount(mls, p) ==
    Cardinality({i \in 1..Len(mls) :
                    ~IsClosed(mls[i]) /\ p \in {mls[i][1], Last(mls[i])}})

PassesThrough(seq, p) == \E i \in 2..(Len(seq) - 1) : seq[i] = p

\* C4: after one MultiLineString was added for operand op to an empty DCEL,
\* every coordinate p that is an end point of k >= 1 of its non-closed line
\* strings has a vertex whose locations[op].boundary is true exactly when k
\* is odd, in whatever order the line strings come and whether or not other
\* line strings pass through p.
C4_Mod2Boundary ==
    (pc = "building" /\ done = 1) =>
        LET mls == gs[1].g.lines
            op  == gs[1].op
        IN  \A i \in 1..Len(mls) : \A p \in {mls[i][1], Last(mls[i])} :
                EndCount(mls, p) >= 1 =>
                    /\ p \in DOMAIN vertices
                    /\ vertices[p].locations[op].boundary
                           = (EndCount(mls, p) % 2 = 1)

\* C4 witness: the MultiLineString has two line strings that end at (1,0)
\* after one that passes through it, and (1,0) is no boundary point.
C4_Witness ==
    /\ pc = "building"
    /\ done = 1
    /\ EndCount(gs[1].g.lines, <<1, 0>>) = 2
    /\ PassesThrough(gs[1].g.lines[1], <<1, 0>>)
    /\ ~vertices[<<1, 0>>].locations[gs[1].op].boundary

\* C5: in a DCEL built with the interaction set that findInteractionPoints
\* returns for the geometries and ghost lines of the run, no coordinate
\* strictly inside the seq of a half-edge is a key of the vertices map.
C5_InteriorsAreNoVertices ==
    (Returned /\ interactions = findInteractionPoints(FinderInput(gs, ghosts))) =>
        \A e \in Edges : \A i \in 2..(Len(halfEdges[e].seq) - 1) :
            halfEdges[e].seq[i] \notin DOMAIN vertices

\* C5 witness: a built DCEL with a vertex that addMultiPoint touched, a
\* vertex that only addGhosts created and an edge with an interior coordinate.
C5_Witness ==
    /\ pc = "built"
    /\ \E i \in 1..Len(gs) : gs[i].g.type \in PointTypes /\ gs[i].g.pts # <<>>
    /\ \E v \in DOMAIN vertices : vertices[v].src = NoFlags
    /\ \E e \in Edges : Len(halfEdges[e].seq) > 2

\* A call of addGeometry that returns, given the geometry and operand of the
\* call that returned just before it.
ReAddStep ==
    /\ pc = "building"
    /\ pc' = "building"
    /\ done >= 1
    /\ done' = done + 1
    /\ gs[done + 1] = gs[done]

\* C6 as stated: adding the same geometry for the same operand a second time
\* leaves the same vertices with the same src and location flags and adds no
\* half-edge.
C6_Idempotent ==
    [][ReAddStep =>
          /\ DOMAIN vertices' = DOMAIN vertices
          /\ \A v \in DOMAIN vertices :
                 /\ vertices'[v].src = vertices[v].src
                 /\ vertices'[v].locations = vertices[v].locations
          /\ Len(halfEdges') = Len(halfEdges)]_vars

\* C6 amended: a second addition of the same geometry for the same operand,
\* directly after the first, adds no vertex and changes no src flag and no
\* half-edge that exists.  A Point or MultiPoint leaves the DCEL as it was.
\* A polygon leaves the location flags as they were, but it appends its
\* half-edges again; so does a line string, and it also flips the boundary
\* flag of every coordinate at which an odd number of its non-closed line
\* strings start or end.
C6_ReAddition ==
    [][ReAddStep =>
          LET g  == gs[done + 1].g
              op == gs[done + 1].op
              appended == (Len(halfEdges) + 1)..Len(halfEdges')
          IN  /\ DOMAIN vertices' = DOMAIN vertices
              /\ \A v \in DOMAIN vertices : vertices'[v].src = vertices[v].src
              /\ SubSeq(halfEdges', 1, Len(halfEdges)) = halfEdges
              /\ \A e \in appended : \E e0 \in Edges :
                     halfEdges'[e].seq = halfEdges[e0].seq
              /\ g.type \in PointTypes =>
                     vertices' = vertices /\ halfEdges' = halfEdges
              /\ g.type \in {"Polygon", "MultiPolygon"} =>
                     /\ appended # {}
                     /\ \A v \in DOMAIN vertices :
                            vertices'[v].locations = vertices[v].locations
              /\ g.type \in {"LineString", "MultiLineString"} =>
                     /\ appended # {}
                     /\ \A v \in DOMAIN vertices :
                            vertices'[v].locations[op].boundary =
                                (vertices[v].locations[op].boundary
                                   # (EndCount(g.lines, v) % 2 = 1))]_vars

\* C6 witness: the same open line string was added twice for the same
\* operand; the DCEL holds its twin pair twice and its end points are no
\* boundary points any more.
C6_Witness ==
    /\ pc = "building"
    /\ done = 2
    /\ gs[1] = gs[2]
    /\ gs[1].g = LineString(<<<<0, 0>>, <<1, 0>>>>)
    /\ Len(halfEdges) = 4
    /\ ~vertices[<<0, 0>>].locations[gs[1].op].boundary

\* Scenario S6: the triangle was added as a polygon for operand 0, without
\* ghost lines and with the interaction set of the triangle alone.
TriangleAdded ==
    /\ gs = <<[g |-> Polygon(<<Triangle>>), op |-> 0]>>
    /\ ghosts = <<>>
    /\ done = 1
    /\ Returned

\* C7 as stated: 3 vertices and 6 half-edges in two next-cycles of length 3;
\* srcFace[0] is true on the internal and false on the external half-edges.
C7_ThreeVerticesSixEdges ==
    TriangleAdded =>
        /\ Cardinality(DOMAIN vertices) = 3
        /\ Len(halfEdges) = 6
        /\ \A e \in Edges :
               /\ NextTimes(e, 3) = e
               /\ NextTimes(e, 1) # e
               /\ halfEdges[e].srcFace[0] # halfEdges[halfEdges[e].twin].srcFace[0]

\* C7 amended: the interaction set of a single triangle is its start point,
\* so the DCEL has 1 vertex (the start of the ring) and 2 half-edges, each
\* its own next and prev (two cycles of length 1) and each carrying the whole
\* ring: the internal one counter-clockwise with srcFace[0] true, the
\* external one clockwise with srcFace[0] false.
C7_OneVertexTwoEdges ==
    TriangleAdded =>
        /\ DOMAIN vertices = {<<0, 0>>}
        /\ Len(halfEdges) = 2
        /\ \A e \in Edges : halfEdges[e].next = e /\ halfEdges[e].prev = e
        /\ halfEdges[1].seq = Triangle
        /\ SignedArea2(halfEdges[1].seq, 1) > 0
        /\ SignedArea2(halfEdges[2].seq, 1) < 0
        /\ halfEdges[1].srcFace[0]
        /\ ~halfEdges[2].srcFace[0]
        /\ halfEdges[1].twin = 2

\* C7 witness: the triangle was added and addGeometry has returned.
C7_Witness ==
    /\ TriangleAdded
    /\ pc = "building"
    /\ interactions = {<<0, 0>>}
    /\ halfEdges # <<>>

\* The rings of the polygons of a geometry.
RECURSIVE Rings(_)
Rings(g) ==
    IF g.type = "GeometryCollection"
    THEN UNION {Rings(g.geoms[i]) : i \in 1..Len(g.geoms)}
    ELSE UNION {{g.polys[y][r] : r \in 1..Len(g.polys[y])} :
                   y \in 1..Len(g.polys)}

\* A ring of g has a position with no interaction point at any later index:
\* its last coordinate is no interaction point.
Inconsistent(g) ==
    \E ring \in Rings(g) : Len(ring) >= 2 /\ Last(ring) \notin interactions

\* C8, for the rings of polygons (what addMultiLineString does with such a
\* line string also depends on the edge set): when the interaction set is
\* inconsistent with the geometry handed to addGeometry, the call ends in a
\* panic: it neither returns nor runs on and creates half-edges without end.
C8_InconsistentPanics ==
    (done >= 1 /\ Inconsistent(gs[done].g)) => pc = "panicked"

----------------------------------------------------------------------------
(* Properties of the interaction-point finder.                             *)

Coordinates(seq) == {seq[i] : i \in 1..Len(seq)}

Segments(seq) == {<<seq[i], seq[i + 1]>> : i \in 1..(Len(seq) - 1)}

Cross(a, b, c) == (b[1] - a[1]) * (c[2] - a[2]) - (b[2] - a[2]) * (c[1] - a[1])

InBox(p, q, x) ==
    /\ (p[1] <= x[1] /\ x[1] <= q[1]) \/ (q[1] <= x[1] /\ x[1] <= p[1])
    /\ (p[2] <= x[2] /\ x[2] <= q[2]) \/ (q[2] <= x[2] /\ x[2] <= p[2])

OnSegment(p, q, x) == Cross(p, q, x) = 0 /\ InBox(p, q, x)

StrictlyInside(p, q, x) == OnSegment(p, q, x) /\ x # p /\ x # q

SegmentsMeet(p, q, r, s) ==
    \/ Cross(r, s, p) * Cross(r, s, q) < 0 /\ Cross(p, q, r) * Cross(p, q, s) < 0
    \/ OnSegment(r, s, p) \/ OnSegment(r, s, q)
    \/ OnSegment(p, q, r) \/ OnSegment(p, q, s)

\* Two segments are noded when they are the same segment or meet at most in
\* an end point of both.
NodedSegments(p, q, r, s) ==
    \/ {p, q} = {r, s}
    \/ IF Cross(p, q, r) = 0 /\ Cross(p, q, s) = 0
       THEN ~(\/ StrictlyInside(p, q, r) \/ StrictlyInside(p, q, s)
              \/ StrictlyInside(r, s, p) \/ StrictlyInside(r, s, q))
       ELSE SegmentsMeet(p, q, r, s) => {p, q} \cap {r, s} # {}

Noded(l1, l2) ==
    \A a \in Segments(l1) \cup Segments(l2) :
        \A b \in Segments(l1) \cup Segments(l2) :
            NodedSegments(a[1], a[2], b[1], b[2])

\* The finder has returned the interaction set of two noded line strings.
FoundForNodedPair ==
    /\ pc = "found"
    /\ Len(gs) = 2
    /\ gs[1].g.type = "LineString"
    /\ gs[2].g.type = "LineString"
    /\ Noded(gs[1].g.lines[1], gs[2].g.lines[1])

\* The neighbours of xy at its occurrences as an interior vertex of seq,
\* each as the set of the coordinate before and the coordinate after.
Neighbours(seq, xy) ==
    {{seq[i - 1], seq[i + 1]} : i \in {j \in 2..(Len(seq) - 1) : seq[j] = xy}}

\* l1 and l2 run through xy from the same neighbour to the same other
\* neighbour at every occurrence, and neither starts or ends there.
OverlapThrough(l1, l2, xy) ==
    /\ xy \notin {l1[1], Last(l1), l2[1], Last(l2)}
    /\ Cardinality(Neighbours(l1, xy) \cup Neighbours(l2, xy)) = 1
    /\ \A nb \in Neighbours(l1, xy) \cup Neighbours(l2, xy) : Cardinality(nb) = 2

\* C9 as stated: every XY that is a vertex of both of two mutually noded
\* line strings is in the interaction set of the two.
C9_CommonVerticesFound ==
    FoundForNodedPair =>
        \A xy \in Coordinates(gs[1].g.lines[1]) \cap Coordinates(gs[2].g.lines[1]) :
            xy \in interactions

\* C9 amended: an XY that is a vertex of both of two mutually noded line
\* strings is in the interaction set of the two, unless the two overlap
\* through it (it is an interior vertex at each of its occurrences, between
\* the same two distinct neighbours); then it is not in the set.
C9_CommonVerticesFoundUnlessOverlap ==
    FoundForNodedPair =>
        LET l1 == gs[1].g.lines[1]
            l2 == gs[2].g.lines[1]
        IN  \A xy \in Coordinates(l1) \cap Coordinates(l2) :
                (xy \in interactions) = ~OverlapThrough(l1, l2, xy)

\* C9 witness: two noded line strings cross at a common interior vertex,
\* which is in the interaction set.
C9_Witness ==
    /\ FoundForNodedPair
    /\ \E xy \in interactions :
           /\ Neighbours(gs[1].g.lines[1], xy) # {}
           /\ Neighbours(gs[2].g.lines[1], xy) # {}
           /\ xy \notin {gs[1].g.lines[1][1], Last(gs[1].g.lines[1]),
                          gs[2].g.lines[1][1], Last(gs[2].g.lines[1])}

\* Scenario S4: the finder has returned for the self-crossing line alone.
FoundForSelfCrossingLine ==
    /\ pc = "found"
    /\ gs = <<[g |-> LineString(SelfCrossingLine), op |-> 0]>>

\* C10 as stated: for the self-crossing line noded at (1,1) the finder
\* returns exactly {(0,0), (2,0), (0,2), (2,2), (1,1)}.
C10_FiveInteractions ==
    FoundForSelfCrossingLine =>
        interactions = {<<0, 0>>, <<2, 0>>, <<0, 2>>, <<2, 2>>, <<1, 1>>}

\* C10 amended: for the self-crossing line noded at (1,1) the finder returns
\* exactly its two end points and the crossing, {(0,0), (2,0), (1,1)}; the
\* corners (2,2) and (0,2) are passed once and are no interaction points.
C10_ThreeInteractions ==
    FoundForSelfCrossingLine =>
        interactions = {<<0, 0>>, <<2, 0>>, <<1, 1>>}

\* C10 witness: the finder has returned for the self-crossing line and has
\* recorded the neighbours of each of its three interior coordinates.
C10_Witness ==
    /\ FoundForSelfCrossingLine
    /\ DOMAIN adjacents = {<<1, 1>>, <<2, 2>>, <<0, 2>>}

----------------------------------------------------------------------------
(* Properties of the convex hull.                                          *)

HullReturned == pc = "returned" /\ ~IsEmpty(gs[1].g)

\* The points collected from the input geometry, as a set.
Collected == Coordinates(convexHullPointSet(gs[1].g))

NonCollinear(P) == \E a \in P, b \in P, c \in P : Cross(a, b, c) # 0

\* p is on or inside the returned geometry.
OnOrInside(p) ==
    CASE result.type = "Polygon" ->
            LET ring == result.polys[1][1]
            IN  \A i \in 1..(Len(ring) - 1) : Cross(ring[i], ring[i + 1], p) >= 0
      [] result.type = "LineString" ->
            LET l == result.lines[1]
            IN  Len(l) = 2 /\ OnSegment(l[1], l[2], p)
      [] result.type = "Point" -> result.pts = <<p>>
      [] OTHER -> FALSE

\* C11: convexHull returns for every geometry with at least one point, and
\* every point collected from the geometry lies on or inside the result: it
\* is strictly to the right of no directed edge of a polygon's ring, it lies
\* on the segment between the two points of a line string, it is equal to a
\* point.
C11_HullExtremes ==
    /\ pc # "panicked"
    /\ HullReturned => \A p \in Collected : OnOrInside(p)

\* C11 witness: a polygon has been returned for a point set with a repeated
\* point and with points that are no corner of the hull.
C11_Witness ==
    /\ HullReturned
    /\ result.type = "Polygon"
    /\ Collected \ Coordinates(result.polys[1][1]) # {}
    /\ Cardinality(Collected) < Len(hullPts)

\* The returned polygon is one closed counter-clockwise ring whose every
\* three consecutive points (around the closing point too) turn strictly left.
StrictlyConvexRing ==
    /\ Len(result.polys) = 1
    /\ Len(result.polys[1]) = 1
    /\ LET ring == result.polys[1][1]
           n == Len(ring) - 1
       IN  /\ n >= 3
           /\ ring[1] = ring[n + 1]
           /\ SignedArea2(ring, 1) > 0
           /\ \A i \in 1..n :
                  Cross(ring[i], ring[(i % n) + 1], ring[((i + 1) % n) + 1]) > 0

\* The lexicographically least and greatest point of a non-empty set.
LeastXY(P) == CHOOSE p \in P : \A q \in P : p = q \/ Less(p, q)

GreatestXY(P) == CHOOSE p \in P : \A q \in P : p = q \/ Less(q, p)

\* C12: for a non-empty geometry convexHull returns a polygon exactly when
\* the collected points contain three non-collinear points, and the polygon
\* is one closed CCW ring of strict left turns; it returns the line string of
\* the two lexicographically extreme points when the points are collinear
\* and at least two are distinct, and a point when all points coincide.
\* isLinearHull never takes the chain of a point set with three
\* non-collinear points for a linear one.
C12_HullRank ==
    /\ HullReturned =>
          /\ (result.type = "Polygon") <=> NonCollinear(Collected)
          /\ result.type = "Polygon" => StrictlyConvexRing
          /\ (~NonCollinear(Collected) /\ Cardinality(Collected) >= 2) =>
                 result = LineString(<<LeastXY(Collected), GreatestXY(Collected)>>)
          /\ Cardinality(Collected) = 1 =>
                 result = Point(LeastXY(Collected))
    /\ (pc = "chained" /\ NonCollinear(Coordinates(hullPts))) =>
          ~isLinearHull(hull).ok

\* C12 witness: a polygon whose chain has odd length (a quadrilateral), the
\* length at which isLinearHull compares the neighbours of the middle point,
\* for a point set that has a point on the hull's edge or inside it.
C12_Witness ==
    /\ HullReturned
    /\ result.type = "Polygon"
    /\ Len(hull) = 5
    /\ Collected \ Coordinates(hull) # {}

----------------------------------------------------------------------------
(* Properties of the builder: the vertices of rings.                       *)

PolygonTypes == {"Polygon", "MultiPolygon"}

\* The last call of addGeometry was given a polygon or multipolygon and has
\* returned.
PolygonAdded == Returned /\ done >= 1 /\ gs[done].g.type \in PolygonTypes

\* C13: after a polygon or multipolygon has been added for operand op, every
\* interaction point on one of its rings is the key of a vertex whose
\* locations[op].boundary is true, whatever the DCEL held before the call
\* (the vertex may exist already, from a point, a line string or the other
\* operand).
C13_RingVerticesOnBoundary ==
    PolygonAdded =>
        \A ring \in Rings(gs[done].g) :
            \A xy \in Coordinates(ring) \cap interactions :
                /\ xy \in DOMAIN vertices
                /\ vertices[xy].locations[gs[done].op].boundary

----------------------------------------------------------------------------
(* Properties of the interaction-point finder: order and direction.        *)

\* The finder has returned for a list of points and line strings.
FoundForPointsAndLines ==
    /\ pc = "found"
    /\ \A i \in 1..Len(gs) : gs[i].g.type \in {"Point", "LineString"}

Orders(n) ==
    {f \in [1..n -> 1..n] : \A i \in 1..n, j \in 1..n : f[i] = f[j] => i = j}

ReverseGeometry(g) ==
    IF g.type = "LineString" THEN LineString(reverseSequence(g.lines[1])) ELSE g

\* The list of the run in the order f, the geometries at the indices in R
\* reversed.
Variant(f, R) ==
    [i \in 1..Len(gs) |->
        IF f[i] \in R THEN ReverseGeometry(gs[f[i]].g) ELSE gs[f[i]].g]

\* C14: for a list of points and line strings without consecutive repeated
\* coordinates, findInteractionPoints gives the same interaction set for
\* every permutation of the list and every choice of line strings replaced
\* by their reverse.
C14_OrderAndDirection ==
    FoundForPointsAndLines =>
        \A f \in Orders(Len(gs)) : \A R \in SUBSET (1..Len(gs)) :
            findInteractionPoints(Variant(f, R)) = interactions

\* C14 witness: three line strings pass through (1,0), the first two between
\* the same neighbours and the third between others, so (1,0) is an
\* interaction point although the second occurrence agrees with the stored
\* pair; (1,0) is no end point and no reversal point.
C14_Witness ==
    /\ FoundForPointsAndLines
    /\ Len(gs) = 3
    /\ \A i \in 1..3 : gs[i].g.type = "LineString" /\ gs[i].g.lines[1] \in ThroughLines
    /\ \A i \in 1..3 : gs[i].g.lines[1][1] # gs[i].g.lines[1][3]
    /\ Neighbours(gs[1].g.lines[1], <<1, 0>>) = Neighbours(gs[2].g.lines[1], <<1, 0>>)
    /\ Neighbours(gs[1].g.lines[1], <<1, 0>>) # Neighbours(gs[3].g.lines[1], <<1, 0>>)
    /\ gs[1].g.lines[1] = reverseSequence(gs[2].g.lines[1])
    /\ <<1, 0>> \in interactions

====
